---- MODULE Spec2Model ----
(***************************************************************************)
(* Model of simpleAnalyzerGenerator:                                       *)
(*   - the batch submitter (submit_condor.py) that                         *)
(*     setup_framework_advanced.py emits,                                  *)
(*   - the dataset resolver samples/extractFilePathFromDataSet.py,         *)
(*   - the scaffold generators setup_framework.py (basic) and              *)
(*     setup_framework_advanced.py (advanced).                             *)
(* Text is modelled character by character: a string is a sequence of      *)
(* one-character strings, a text file a sequence of lines.                 *)
(***************************************************************************)
EXTENDS Integers, Sequences, FiniteSets, TLC

VARIABLES
    prog,        \* which program this run executes
    pc,          \* the program's position
    status,      \* "running", "done" (exit 0), "exit1" (sys.exit), "crashed" (uncaught exception)
    stdout,      \* the messages printed so far, in order
    \* ---- batch submitter
    inputA,      \* content of the input list "a", a sequence of lines
    pos,         \* number of configuration lines main has read
    dirs,        \* directories created under the working directory
    textFiles,   \* path -> sequence of lines, the text files written
    scriptFiles, \* paths of the wrapper scripts and submission descriptors written
    submitted,   \* the condor_submit invocations, each with the argument rows it queued
    calls,       \* history of the loop's iterations: what each one did
    \* ---- dataset resolver
    queryOut,    \* what the catalog query printed
    file_list,   \* the value get_file_list returned
    outFile,     \* file_list.txt: whether it exists, and its text
    \* ---- scaffold generators
    env,         \* what the run finds: ROOT importable, sample file opens, tree present, ...
    tree,        \* the value of f.Get(tree_name): "unset", "found" or "null"
    outTree,     \* the paths that exist in the output directory ("." is the directory itself)
    cwd,         \* the working directory: "orig" or "out"
    header,      \* the lines of <class>.h as MakeClass wrote it
    incHeader    \* what was written to include/<class>.h, piece by piece

subVars == <<inputA, pos, dirs, textFiles, scriptFiles, submitted, calls>>
resVars == <<queryOut, file_list, outFile>>
scVars == <<env, tree, outTree, cwd, header, incHeader>>
vars == <<prog, pc, status, stdout, subVars, resVars, scVars>>

\* ------------------------------------------------------------------ bounds
MaxJobs == 2
MaxLines == 2
MaxOut == 5
MaxHeader == 2

\* ------------------------------------------------------------ text helpers
IsSpace(c) == c \in {" ", "\t", "\n", "\r"}

RECURSIVE LStrip(_)
LStrip(s) == IF s # <<>> /\ IsSpace(Head(s)) THEN LStrip(Tail(s)) ELSE s

RECURSIVE RStrip(_)
RStrip(s) == IF s # <<>> /\ IsSpace(s[Len(s)]) THEN RStrip(SubSeq(s, 1, Len(s) - 1)) ELSE s

\* str.strip()
Strip(s) == RStrip(LStrip(s))

\* length of the longest whitespace-free prefix of s
RECURSIVE WordLen(_)
WordLen(s) == IF s = <<>> \/ IsSpace(Head(s)) THEN 0 ELSE 1 + WordLen(Tail(s))

\* str.split() without arguments
RECURSIVE Split(_)
Split(s) ==
    LET t == LStrip(s)
        n == WordLen(t)
    IN IF t = <<>> THEN <<>> ELSE <<SubSeq(t, 1, n)>> \o Split(SubSeq(t, n + 1, Len(t)))

StartsWith(s, c) == s # <<>> /\ s[1] = c

Digits == <<"0", "1", "2", "3", "4", "5", "6", "7", "8", "9">>

\* str(i) of a non-negative integer, as an f-string formats it
RECURSIVE StrInt(_)
StrInt(n) == IF n < 10 THEN <<Digits[n + 1]>> ELSE StrInt(n \div 10) \o <<Digits[(n % 10) + 1]>>

\* " ".join(fields)
RECURSIVE JoinSp(_)
JoinSp(fs) == IF fs = <<>> THEN <<>>
              ELSE IF Len(fs) = 1 THEN fs[1]
              ELSE fs[1] \o <<" ">> \o JoinSp(Tail(fs))

\* iterating a text file yields each line with its line terminator
FileLines(f) == [i \in 1..Len(f) |-> f[i] \o <<"\n">>]

\* os.path.join of two components
PathJoin(a, b) ==
    IF StartsWith(b, "/") THEN b
    ELSE IF a = <<>> \/ a[Len(a)] = "/" THEN a \o b
    ELSE a \o <<"/">> \o b

\* ------------------------------------------------- batch submitter: inputs
\* os.getcwd() of the submitter: the analyzer directory
Cwd == <<"/", "w">>
EXE_NAME == <<"r", "u", "n", "A", "n", "a", "l", "y", "s", "i", "s">>
\* os.getlogin() at generation time
Login == <<"u">>
EOS_BASE == <<"/", "e", "o", "s", "/", "u", "s", "e", "r", "/">> \o <<Login[1]>> \o <<"/">> \o Login
            \o <<"/", "A", "n", "a", "l", "y", "z", "e", "r", "O", "u", "t", "p", "u", "t">>

\* the lines an input list may hold (without their terminators)
ListLineSet == { <<"x">>, <<" ", "y">>, <<"#", "c">>, <<" ">>, <<>> }

RECURSIVE SeqsUpTo(_, _)
SeqsUpTo(S, n) == IF n = 0 THEN {<<>>}
                  ELSE LET shorter == SeqsUpTo(S, n - 1)
                       IN shorter \cup {Append(s, x) : s \in shorter, x \in S}

InputLists == SeqsUpTo(ListLineSet, MaxLines)

\* the second input list of the working directory, "b"
InputB == << <<"z">> >>

\* the lines the job configuration may hold (without their terminators)
ConfigLineSet == {
    <<"a", " ", "A", " ", "1", " ", "0", " ", "P">>,
    <<" ", "a", " ", " ", "B", " ", "2", " ", "1", " ", "Q", " ", "x">>,
    <<"b", " ", "A", " ", "1", " ", "0", " ", "R">>,
    <<"n", " ", "A", " ", "1", " ", "0", " ", "P">>,
    <<".", " ", "A", " ", "1", " ", "0", " ", "P">>,
    <<"a", " ", "C", " ", "1", " ", "0">>,
    <<"#", "a", " ", "A", " ", "1", " ", "0", " ", "P">>,
    <<" ", "#">>,
    <<" ">> }

\* the regular files and the directories that exist besides what the run creates
ListFiles == { <<"a">>, <<"b">> }
ExistingDirs == { <<".">> }

ReadList(path) == IF path = <<"a">> THEN inputA ELSE InputB

\* --------------------------------------------- batch submitter: submit_job
StrCondor == <<"c", "o", "n", "d", "o", "r">>

Msg(tag, text) == [tag |-> tag, text |-> text]

\* a fixed message, kept whole
Lit(str) == <<str>>

Put(f, k, v) == [x \in DOMAIN f \cup {k} |-> IF x = k THEN v ELSE f[x]]

\* main's filter: line.strip() and not line.startswith('#')
MainAccepts(rawline) == Strip(rawline) # <<>> /\ ~StartsWith(rawline, "#")

\* variant: the field count tested against 4
TooFewFieldsOffByOne(parts) == Len(parts) < 4

\* the field-count check of submit_job
TooFewFields(parts) == Len(parts) < 5

\* job_dir = f"condor/{output_dir}"
JobDir(output_dir) == StrCondor \o <<"/">> \o output_dir

\* os.makedirs(job_dir, exist_ok=True) creates the missing ancestors too
MakeDirs(ds, job_dir) == ds \cup {StrCondor, job_dir}

\* variant: the existence test left out
PathExistsUnchecked(path) == TRUE

\* os.path.exists(input_list)
PathExists(path) == path \in ListFiles \cup ExistingDirs

\* variant: an entry followed by another line is lost
RECURSIVE ReadFilesDropFirst(_)
ReadFilesDropFirst(lines) ==
    IF lines = <<>> THEN <<>>
    ELSE IF Strip(Head(lines)) # <<>> /\ Len(lines) > 1
         THEN <<Strip(Head(Tail(lines)))>> \o ReadFilesDropFirst(Tail(Tail(lines)))
    ELSE IF Strip(Head(lines)) # <<>> THEN <<Strip(Head(lines))>>
    ELSE ReadFilesDropFirst(Tail(lines))

\* files = [l.strip() for l in f_in if l.strip()]
RECURSIVE ReadFiles(_)
ReadFiles(lines) ==
    IF lines = <<>> THEN <<>>
    ELSE IF Strip(Head(lines)) # <<>> THEN <<Strip(Head(lines))>> \o ReadFiles(Tail(lines))
    ELSE ReadFiles(Tail(lines))

ArgFile(job_dir) == job_dir \o <<"/", "a", "r", "g", "u", "m", "e", "n", "t", "s", ".", "t", "x", "t">>

\* variant: the chunk name without the index
ChunkNameFixed(i) == <<"c", "h", "u", "n", "k", "_", "0", ".", "t", "x", "t">>

\* chunk_name = f"chunk_{i}.txt"
ChunkName(i) == <<"c", "h", "u", "n", "k", "_">> \o StrInt(i) \o <<".", "t", "x", "t">>

\* chunk_path = os.path.join(os.getcwd(), job_dir, chunk_name)
ChunkPath(job_dir, i) == PathJoin(PathJoin(Cwd, job_dir), ChunkName(i))

\* output_name = f"output_{i}.root"
OutputName(i) == <<"o", "u", "t", "p", "u", "t", "_">> \o StrInt(i) \o <<".", "r", "o", "o", "t">>

\* eos_dest = f"{EOS_BASE}/{output_dir}"
EosDest(output_dir) == EOS_BASE \o <<"/">> \o output_dir

\* one row of arguments.txt (without its terminator)
ArgRow(parts, i) ==
    JoinSp(<<ChunkPath(JobDir(parts[2]), i), OutputName(i), EosDest(parts[2]),
             parts[3], parts[4], parts[5]>>)

\* the chunk files of the loop over enumerate(files), from index i on:
\* with open(chunk_path, 'w') as f_chunk: f_chunk.write(f_path)
RECURSIVE WriteChunks(_, _, _, _)
WriteChunks(fs, files, job_dir, i) ==
    IF i >= Len(files) THEN fs
    ELSE WriteChunks(Put(fs, ChunkPath(job_dir, i), <<files[i + 1]>>), files, job_dir, i + 1)

\* the rows written to arguments.txt by the same loop
ArgRows(parts, files) == [k \in 1..Len(files) |-> ArgRow(parts, k - 1)]

WrapperPath(job_dir) == job_dir \o <<"/", "w", "r", "a", "p", "p", "e", "r", ".", "s", "h">>
SubPath(job_dir) == job_dir \o <<"/", "j", "o", "b", ".", "s", "u", "b">>

\* What wrapper.sh does with one task's arguments: it changes to the analyzer
\* directory, runs ./runAnalysis $1 $2 $4 $5 $6 there, copies $2 to $3/$2 and
\* removes $2.
WrapperInput(argv) == argv[1]
WrapperLocalOutput(argv) == PathJoin(Cwd, argv[2])
WrapperRemoteOutput(argv) == argv[3] \o <<"/">> \o argv[2]

\* the argument vector the scheduler hands the wrapper for one row
TaskArgv(row) == Split(row)

Call(line, outcome, made, wrote, chunks, list) ==
    [line |-> line, outcome |-> outcome, made |-> made, wrote |-> wrote,
     chunks |-> chunks, list |-> list]

MainStart ==
    /\ prog = "submit" /\ pc = "start" /\ status = "running"
    /\ stdout' = Append(stdout, Msg("INFO", Lit("Reading config")))
    /\ pc' = "loop"
    /\ UNCHANGED <<prog, status, subVars, resVars, scVars>>

\* the loop reads a line that the filter drops
MainSkip(rawline) ==
    /\ prog = "submit" /\ pc = "loop" /\ status = "running" /\ pos < MaxJobs
    /\ ~MainAccepts(FileLines(<<rawline>>)[1])
    /\ pos' = pos + 1
    /\ calls' = Append(calls, Call(rawline, "skipped", {}, {}, <<>>, <<>>))
    /\ UNCHANGED <<prog, pc, status, stdout, inputA, dirs, textFiles, scriptFiles, submitted, resVars, scVars>>

\* submit_job(line.strip()) on a line main accepts
SubmitJob(rawline) ==
    /\ prog = "submit" /\ pc = "loop" /\ status = "running" /\ pos < MaxJobs
    /\ MainAccepts(FileLines(<<rawline>>)[1])
    /\ pos' = pos + 1
    /\ LET line == Strip(FileLines(<<rawline>>)[1])
           parts == Split(line)
       IN IF TooFewFields(parts)
          THEN \* warning and return
               /\ stdout' = Append(stdout, Msg("WARNING", line))
               /\ calls' = Append(calls, Call(line, "invalid", {}, {}, <<>>, <<>>))
               /\ UNCHANGED <<pc, status, dirs, textFiles, scriptFiles, submitted>>
          ELSE IF Len(parts) < 5
          THEN \* parts[4] raises IndexError
               /\ status' = "crashed"
               /\ calls' = Append(calls, Call(line, "crashed", {}, {}, <<>>, <<>>))
               /\ UNCHANGED <<pc, stdout, dirs, textFiles, scriptFiles, submitted>>
          ELSE LET input_list == parts[1]
                   job_dir == JobDir(parts[2])
                   made == MakeDirs(dirs, job_dir)
               IN /\ dirs' = made
                  /\ IF ~PathExists(input_list)
                     THEN \* error and return
                          /\ stdout' = Append(stdout, Msg("ERROR", input_list))
                          /\ calls' = Append(calls, Call(line, "missing", made \ dirs, {}, <<>>, <<>>))
                          /\ UNCHANGED <<pc, status, textFiles, scriptFiles, submitted>>
                     ELSE IF input_list \notin ListFiles
                     THEN \* open() of a directory raises
                          /\ status' = "crashed"
                          /\ calls' = Append(calls, Call(line, "crashed", made \ dirs, {}, <<>>, <<>>))
                          /\ UNCHANGED <<pc, stdout, textFiles, scriptFiles, submitted>>
                     ELSE LET list == ReadList(input_list)
                              files == ReadFiles(FileLines(list))
                              arg_file == ArgFile(job_dir)
                              chunks == [k \in 1..Len(files) |-> ChunkPath(job_dir, k - 1)]
                              fs == Put(WriteChunks(textFiles, files, job_dir, 0),
                                        arg_file, ArgRows(parts, files))
                          IN /\ stdout' = stdout \o
                                   << Msg("JOB", JoinSp(<<parts[5], parts[2], StrInt(Len(files))>>)),
                                      Msg("INFO", job_dir) >>
                             /\ textFiles' = fs
                             /\ scriptFiles' = scriptFiles \cup {WrapperPath(job_dir), SubPath(job_dir)}
                             /\ submitted' = Append(submitted,
                                   [sub |-> SubPath(job_dir), rows |-> fs[arg_file]])
                             /\ calls' = Append(calls,
                                   Call(line, "job", made \ dirs,
                                        {chunks[k] : k \in 1..Len(chunks)}
                                           \cup {arg_file, WrapperPath(job_dir), SubPath(job_dir)},
                                        chunks, list))
                             /\ UNCHANGED <<pc, status>>
    /\ UNCHANGED <<prog, inputA, resVars, scVars>>

\* the configuration file is exhausted
MainEnd ==
    /\ prog = "submit" /\ pc = "loop" /\ status = "running"
    /\ pc' = "end"
    /\ status' = "done"
    /\ UNCHANGED <<prog, stdout, subVars, resVars, scVars>>

\* ------------------------------------------- generated main.cc: list reader
\* while (std::getline(infile, line)) { if (line.empty() || line[0] == '#') continue;
\*                                      chain->Add(line.c_str()); }
RECURSIVE ChainFiles(_)
ChainFiles(lines) ==
    IF lines = <<>> THEN <<>>
    ELSE IF Head(lines) = <<>> \/ Head(lines)[1] = "#" THEN ChainFiles(Tail(lines))
    ELSE <<Head(lines)>> \o ChainFiles(Tail(lines))

\* ------------------------------------------------ claims: batch submitter
LastCall == calls[Len(calls)]

NonBlank(l) == \E j \in 1..Len(l) : ~IsSpace(l[j])

\* a line without its leading and trailing whitespace
Trimmed(l) ==
    LET ix == {j \in 1..Len(l) : ~IsSpace(l[j])}
        lo == CHOOSE j \in ix : \A k \in ix : j <= k
        hi == CHOOSE j \in ix : \A k \in ix : j >= k
    IN IF ix = {} THEN <<>> ELSE SubSeq(l, lo, hi)

\* the entries of an input list: its non-blank lines, trimmed, in order
Entries(list) == LET nb == SelectSeq(list, NonBlank) IN [k \in 1..Len(nb) |-> Trimmed(nb[k])]

\* number of whitespace-separated fields of a line
FieldCount(l) ==
    Cardinality({j \in 1..Len(l) : ~IsSpace(l[j]) /\ (j = 1 \/ IsSpace(l[j - 1]))})

\* the j-th whitespace-separated field of a line (j <= FieldCount(l))
Field(l, j) ==
    LET starts == {i \in 1..Len(l) : ~IsSpace(l[i]) /\ (i = 1 \/ IsSpace(l[i - 1]))}
        st == CHOOSE i \in starts : Cardinality({h \in starts : h <= i}) = j
        en == CHOOSE i \in st..Len(l) :
                 /\ \A h \in st..i : ~IsSpace(l[h])
                 /\ (i = Len(l) \/ IsSpace(l[i + 1]))
    IN SubSeq(l, st, en)

\* the step handled a configuration line
Handled == Len(calls') = Len(calls) + 1

C2_MissingListSkipsJob ==
    [][ Handled => \A c \in {calls'[Len(calls')]} :
          (c.outcome # "skipped" /\ FieldCount(c.line) >= 5
             /\ Field(c.line, 1) \notin ListFiles \cup ExistingDirs)
          => /\ stdout' = Append(stdout, Msg("ERROR", Field(c.line, 1)))
             /\ textFiles' = textFiles
             /\ scriptFiles' = scriptFiles
             /\ submitted' = submitted
             /\ status' = "running" /\ pc' = "loop" ]_vars

\* a job is submitted after a job whose list is missing was skipped
C2_Witness ==
    /\ Len(calls) = 2
    /\ calls[1].outcome = "missing" /\ calls[2].outcome = "job"
    /\ Len(submitted) = 1

\* C3: a step that handles a non-blank, non-comment line with fewer than 5
\* fields prints a warning, creates no directory and no file, submits nothing,
\* and leaves the batch loop running.
C3_ShortLineSkipped ==
    [][ Handled => \A c \in {calls'[Len(calls')]} :
          (c.outcome # "skipped" /\ FieldCount(c.line) < 5)
          => /\ stdout' = Append(stdout, Msg("WARNING", c.line))
             /\ dirs' = dirs
             /\ textFiles' = textFiles
             /\ scriptFiles' = scriptFiles
             /\ submitted' = submitted
             /\ status' = "running" /\ pc' = "loop" ]_vars

\* a job is submitted after a four-field line was skipped
C3_Witness ==
    /\ Len(calls) = 2
    /\ calls[1].outcome = "invalid" /\ FieldCount(calls[1].line) = 4
    /\ calls[2].outcome = "job"
    /\ dirs = {StrCondor, JobDir(<<"A">>)}

\* the lines of the chunk files of a call, concatenated in chunk order
RECURSIVE ConcatChunks(_)
ConcatChunks(paths) ==
    IF paths = <<>> THEN <<>> ELSE textFiles[Head(paths)] \o ConcatChunks(Tail(paths))

Tasks == UNION {{<<j, k>> : k \in 1..Len(submitted[j].rows)} : j \in 1..Len(submitted)}

ArgvOf(t) == TaskArgv(submitted[t[1]].rows[t[2]])

\* C5: any two tasks of one run have distinct chunk paths, distinct local
\* output files and distinct remote destinations.
C5_DistinctTaskPaths ==
    \A t, u \in Tasks :
        t # u => /\ WrapperInput(ArgvOf(t)) # WrapperInput(ArgvOf(u))
                 /\ WrapperLocalOutput(ArgvOf(t)) # WrapperLocalOutput(ArgvOf(u))
                 /\ WrapperRemoteOutput(ArgvOf(t)) # WrapperRemoteOutput(ArgvOf(u))

\* a line a FileList consumer has to skip: empty, or starting with '#'
Skippable(l) == l = <<>> \/ StartsWith(l, "#")

\* C10: the submitter creates no chunk and no row for a blank or '#' line of the
\* input list (it creates at most one per other line), and the entry-point
\* program adds no such line to its chain.
C10_ConsumersSkipComments ==
    /\ (calls # <<>> /\ LastCall.outcome = "job") =>
          LET keep == SelectSeq(LastCall.list, LAMBDA l : ~Skippable(l))
          IN /\ Len(LastCall.chunks) <= Len(keep)
             /\ Len(textFiles[ArgFile(JobDir(Field(LastCall.line, 2)))]) <= Len(keep)
    /\ \A k \in 1..Len(ChainFiles(inputA)) : ~Skippable(ChainFiles(inputA)[k])

\* ------------------------------------------------------- dataset resolver
\* the characters the query output is drawn from
OutChars == {"f", "g", " ", "\n"}

QueryOutputs == SeqsUpTo(OutChars, MaxOut)

NoFile == [exists |-> FALSE, text |-> <<>>]

\* file_list.txt before the run: absent, or left by an earlier run
OutFilesBefore == {NoFile, [exists |-> TRUE, text |-> <<"g", "\n">>]}

redirector == <<"r", "o", "o", "t", ":", "/", "/", "c", "m", "s", "-", "x", "r", "d", "-",
                "g", "l", "o", "b", "a", "l", ".", "c", "e", "r", "n", ".", "c", "h", "/">>

NoFilesFound == "Error: No files found. Please check your proxy (voms-proxy-init) or the dataset name."

\* variant: the redirector put after the name
FullPathsAppended(files) == [i \in 1..Len(files) |-> files[i] \o redirector]

\* full_paths = [redirector + f for f in files]
FullPaths(files) == [i \in 1..Len(files) |-> redirector \o files[i]]

\* variant: the list saved even when empty
SaveAlways(list) == TRUE

\* if file_list:
SaveWanted(list) == list # <<>>

\* for file_path in file_list: f_out.write(file_path + "\n")
RECURSIVE WriteList(_)
WriteList(list) == IF list = <<>> THEN <<>> ELSE Head(list) \o <<"\n">> \o WriteList(Tail(list))

Min(a, b) == IF a < b THEN a ELSE b

\* get_file_list(target_dataset)
GetFileList ==
    /\ prog = "resolve" /\ pc = "start" /\ status = "running"
    /\ LET files == Split(queryOut)
       IN IF files = <<>>
          THEN /\ stdout' = stdout \o <<Msg("QUERY", Lit("Executing DAS query")),
                                          Msg("QUERY", Lit("Please wait, this might take a moment...")),
                                          Msg("ERROR", Lit(NoFilesFound))>>
               /\ file_list' = <<>>
          ELSE /\ stdout' = stdout \o <<Msg("QUERY", Lit("Executing DAS query")),
                                          Msg("QUERY", Lit("Please wait, this might take a moment..."))>>
               /\ file_list' = FullPaths(files)
    /\ pc' = "got"
    /\ UNCHANGED <<prog, status, queryOut, outFile, subVars, scVars>>

\* the rest of __main__: save the list and preview it
SaveFileList ==
    /\ prog = "resolve" /\ pc = "got" /\ status = "running"
    /\ IF SaveWanted(file_list)
       THEN /\ outFile' = [exists |-> TRUE, text |-> WriteList(file_list)]
            /\ stdout' = stdout \o <<Msg("SUCCESS", StrInt(Len(file_list))),
                                       Msg("SAVED", Lit("file_list.txt"))>>
                                \o [i \in 1..Min(3, Len(file_list)) |-> Msg("PREVIEW", file_list[i])]
       ELSE UNCHANGED <<outFile, stdout>>
    /\ pc' = "done"
    /\ status' = "done"
    /\ UNCHANGED <<prog, queryOut, file_list, subVars, scVars>>

\* ------------------------------------------------ claims: dataset resolver
\* the lines of a text, each line ended by its terminator
RECURSIVE LinesOf(_)
LinesOf(text) ==
    IF text = <<>> THEN <<>>
    ELSE LET n == CHOOSE i \in 1..Len(text) : text[i] = "\n" /\ \A h \in 1..(i - 1) : text[h] # "\n"
         IN <<SubSeq(text, 1, n - 1)>> \o LinesOf(SubSeq(text, n + 1, Len(text)))

\* C6: for a query output with at least one token, get_file_list returns one
\* entry per whitespace-separated token, the i-th being the redirector followed
\* by the i-th token, and the caller writes exactly these entries, one per line.
C6_ResolverPrefixesEveryToken ==
    (prog = "resolve" /\ FieldCount(queryOut) > 0) =>
        /\ pc \in {"got", "done"} =>
              /\ Len(file_list) = FieldCount(queryOut)
              /\ \A i \in 1..Len(file_list) : file_list[i] = redirector \o Field(queryOut, i)
        /\ pc = "done" =>
              /\ outFile.exists
              /\ outFile.text # <<>> /\ outFile.text[Len(outFile.text)] = "\n"
              /\ LinesOf(outFile.text) = file_list

C6_Witness ==
    /\ prog = "resolve" /\ pc = "done"
    /\ Len(file_list) = 2
    /\ file_list[1] = redirector \o <<"g">>
    /\ file_list[2] = redirector \o <<"f", "f">>
    /\ Len(queryOut) = 5

\* C7 as claimed: for an empty query result the resolver produces an empty
\* output file and a non-empty diagnostic, and ends without an unhandled error.
C7_EmptyResultEmptyFile ==
    (prog = "resolve" /\ pc = "done" /\ FieldCount(queryOut) = 0) =>
        /\ outFile.exists /\ outFile.text = <<>>
        /\ \E i \in 1..Len(stdout) : stdout[i].tag = "ERROR" /\ stdout[i].text # Lit("")
        /\ status = "done"

\* C7 as amended: for an empty query result the resolver writes no output file
\* (file_list.txt is neither created nor changed), prints a non-empty
\* diagnostic, and ends normally.
C7_EmptyResultNoFileWritten ==
    /\ []((prog = "resolve" /\ pc = "done" /\ FieldCount(queryOut) = 0) =>
            /\ \E i \in 1..Len(stdout) : stdout[i].tag = "ERROR" /\ stdout[i].text # Lit("")
            /\ file_list = <<>>
            /\ status = "done")
    /\ [][(prog = "resolve" /\ FieldCount(queryOut) = 0) => outFile' = outFile]_vars

C7_Witness ==
    /\ prog = "resolve" /\ pc = "done" /\ status = "done"
    /\ queryOut = <<" ", "\n">>
    /\ outFile.exists /\ outFile.text # <<>>

\* ----------------------------------------------------- scaffold generators
\* prog = "basic" is setup_framework.py, prog = "advanced" is
\* setup_framework_advanced.py.  Paths are relative to the output directory.
Scaffold == {"basic", "advanced"}

\* the lines MakeClass may write to the header, with their terminators
HeaderLineSet == {
    <<"p", "u", "b", "l", "i", "c", " ", ":", "\n">>,
    <<"p", "u", "b", "l", "i", "c", "\n">>,
    <<"x", ":", "\n">>,
    <<"c", ":", "p", "u", "b", "l", "i", "c", " ", "B", "\n">> }

Headers == SeqsUpTo(HeaderLineSet, MaxHeader)

\* the states of the output directory before the run: absent, or present with
\* any of its sub-directories
TreesBefore == {{}} \cup {{"."} \cup sub : sub \in SUBSET {"src", "include", "condor"}}

Envs == [rootOk : BOOLEAN, fileOk : BOOLEAN, treeFound : BOOLEAN, genOk : BOOLEAN,
         loginOk : BOOLEAN, before : TreesBefore]

\* sub in line
Contains(line, sub) ==
    \E i \in 1..(Len(line) - Len(sub) + 1) : SubSeq(line, i, i + Len(sub) - 1) = sub

\* "public" in line and ":" in line
IsMarker(line) == Contains(line, <<"p", "u", "b", "l", "i", "c">>) /\ Contains(line, <<":">>)

\* the strings written after the marker line
InjectedBlock == <<
    Lit("\n   // --- [Advanced] User Settings ---\n"),
    Lit("   float fWeight = 1.0;\n"),
    Lit("   bool fIsData = false;\n"),
    Lit("   TString fProcess = \"\";\n"),
    Lit("   TString fOutputFileName = \"output.root\";\n"),
    Lit("   // --------------------------------\n\n") >>

\* variant: the inserted flag never set
RECURSIVE InjectHeaderEveryMarker(_, _)
InjectHeaderEveryMarker(lines, inserted) ==
    IF lines = <<>> THEN <<>>
    ELSE IF IsMarker(Head(lines))
         THEN <<Head(lines)>> \o InjectedBlock \o InjectHeaderEveryMarker(Tail(lines), inserted)
    ELSE <<Head(lines)>> \o InjectHeaderEveryMarker(Tail(lines), inserted)

\* the loop over lines that writes include/<class>.h
RECURSIVE InjectHeader(_, _)
InjectHeader(lines, inserted) ==
    IF lines = <<>> THEN <<>>
    ELSE IF IsMarker(Head(lines)) /\ ~inserted
         THEN <<Head(lines)>> \o InjectedBlock \o InjectHeader(Tail(lines), TRUE)
    ELSE <<Head(lines)>> \o InjectHeader(Tail(lines), inserted)

\* print the messages, then sys.exit(1)
Exit1(msgs) ==
    /\ stdout' = stdout \o msgs
    /\ status' = "exit1"

\* an exception nothing catches: traceback, exit status 1
Crash == status' = "crashed"

\* the banner, then try: import ROOT
ImportROOT ==
    /\ prog \in Scaffold /\ pc = "start" /\ status = "running"
    /\ IF env.rootOk
       THEN /\ pc' = "open"
            /\ stdout' = Append(stdout, Msg("INFO", Lit("Initializing")))
            /\ UNCHANGED status
       ELSE /\ Exit1(<<Msg("INFO", Lit("Initializing")), Msg("ERROR", Lit("ROOT not found"))>>)
            /\ UNCHANGED pc
    /\ UNCHANGED <<prog, subVars, resVars, scVars>>

\* f = ROOT.TFile.Open(sample_file, "READ")
OpenFile ==
    /\ prog \in Scaffold /\ pc = "open" /\ status = "running"
    /\ LET opening == IF prog = "basic" THEN <<Msg("INFO", Lit("Opening file"))>> ELSE <<>>
       IN IF env.fileOk
          THEN pc' = "gettree" /\ stdout' = stdout \o opening /\ UNCHANGED status
          ELSE Exit1(opening \o <<Msg("ERROR", Lit("Cannot open file"))>>) /\ UNCHANGED pc
    /\ UNCHANGED <<prog, subVars, resVars, scVars>>

\* tree = f.Get(tree_name), and in the basic generator the check of it
GetTree ==
    /\ prog \in Scaffold /\ pc = "gettree" /\ status = "running"
    /\ tree' = IF env.treeFound THEN "found" ELSE "null"
    /\ IF prog = "basic"
       THEN IF env.treeFound
            THEN /\ stdout' = Append(stdout, Msg("INFO", Lit("Found TTree")))
                 /\ pc' = "mkdirs" /\ UNCHANGED status
            ELSE Exit1(<<Msg("ERROR", Lit("TTree not found"))>>) /\ UNCHANGED pc
       ELSE pc' = "mkdirs" /\ UNCHANGED <<status, stdout>>
    /\ UNCHANGED <<prog, subVars, resVars, env, outTree, cwd, header, incHeader>>

\* the directory structure; mkOk is whether os.makedirs succeeds
PrepareDirs(mkOk) ==
    /\ prog \in Scaffold /\ pc = "mkdirs" /\ status = "running"
    /\ IF prog = "basic"
       THEN IF "." \in outTree
            THEN /\ stdout' = Append(stdout, Msg("WARNING", Lit("Directory already exists.")))
                 /\ pc' = "chdir" /\ UNCHANGED <<status, outTree>>
            ELSE IF mkOk
            THEN /\ outTree' = {".", "src", "include"}
                 /\ stdout' = Append(stdout, Msg("INFO", Lit("Created directory structure")))
                 /\ pc' = "chdir" /\ UNCHANGED status
            ELSE Exit1(<<Msg("ERROR", Lit("Failed to create directories"))>>) /\ UNCHANGED <<pc, outTree>>
       ELSE IF "." \in outTree
            THEN pc' = "chdir" /\ UNCHANGED <<status, stdout, outTree>>
            ELSE IF mkOk
            THEN /\ outTree' = {".", "src", "include", "condor"}
                 /\ pc' = "chdir" /\ UNCHANGED <<status, stdout>>
            ELSE Crash /\ UNCHANGED <<pc, stdout, outTree>>
    /\ UNCHANGED <<prog, subVars, resVars, env, tree, cwd, header, incHeader>>

\* os.chdir(output_dir)
ChangeDir ==
    /\ prog \in Scaffold /\ pc = "chdir" /\ status = "running"
    /\ cwd' = "out"
    /\ stdout' = IF prog = "basic"
                 THEN Append(stdout, Msg("INFO", Lit("Changed working directory")))
                 ELSE stdout
    /\ pc' = "makeclass"
    /\ UNCHANGED <<prog, status, subVars, resVars, env, tree, outTree, header, incHeader>>

\* tree.MakeClass(class_name); hdr is the header the external generator writes
MakeClass(hdr) ==
    /\ prog \in Scaffold /\ pc = "makeclass" /\ status = "running"
    /\ stdout' = Append(stdout, Msg("INFO", Lit("Running MakeClass...")))
    /\ IF tree = "null"
       THEN \* a method call on the null object raises
            Crash /\ UNCHANGED <<pc, outTree, header>>
       ELSE /\ IF env.genOk
               THEN outTree' = outTree \cup {"X.h", "X.C"} /\ header' = hdr
               ELSE UNCHANGED <<outTree, header>>
            /\ pc' = "relocate"
            /\ UNCHANGED status
    /\ UNCHANGED <<prog, subVars, resVars, env, tree, cwd, incHeader>>

\* basic: check the generated files and move them to src/ and include/
MoveFiles ==
    /\ prog = "basic" /\ pc = "relocate" /\ status = "running"
    /\ IF {"X.C", "X.h"} \subseteq outTree
       THEN IF "src" \notin outTree
            THEN \* shutil.move into a missing directory raises
                 Crash /\ UNCHANGED <<pc, stdout, outTree, incHeader>>
            ELSE IF "include" \notin outTree
            THEN /\ Crash
                 /\ outTree' = (outTree \ {"X.C"}) \cup {"src/X.C"}
                 /\ UNCHANGED <<pc, stdout, incHeader>>
            ELSE /\ outTree' = (outTree \ {"X.C", "X.h"}) \cup {"src/X.C", "include/X.h"}
                 /\ incHeader' = header
                 /\ stdout' = stdout \o <<Msg("INFO", Lit("Moved .C -> src/")),
                                            Msg("INFO", Lit("Moved .h -> include/"))>>
                 /\ pc' = "main" /\ UNCHANGED status
       ELSE Exit1(<<Msg("ERROR", Lit("MakeClass failed to generate files."))>>) /\ UNCHANGED <<pc, outTree, incHeader>>
    /\ UNCHANGED <<prog, subVars, resVars, env, tree, cwd, header>>

\* advanced: copy the header to include/ with the member variables injected
InjectMembers ==
    /\ prog = "advanced" /\ pc = "relocate" /\ status = "running"
    /\ IF "X.h" \notin outTree \/ "include" \notin outTree
       THEN \* open() raises
            Crash /\ UNCHANGED <<pc, outTree, incHeader>>
       ELSE /\ incHeader' = InjectHeader(header, FALSE)
            /\ outTree' = (outTree \ {"X.h"}) \cup {"include/X.h"}
            /\ pc' = "source" /\ UNCHANGED status
    /\ UNCHANGED <<prog, stdout, subVars, resVars, env, tree, cwd, header>>

\* advanced: write src/<class>.C from the template, drop the generated one
WriteSource ==
    /\ prog = "advanced" /\ pc = "source" /\ status = "running"
    /\ IF "src" \notin outTree
       THEN Crash /\ UNCHANGED <<pc, outTree>>
       ELSE /\ outTree' = (outTree \ {"X.C"}) \cup {"src/X.C"}
            /\ pc' = "main" /\ UNCHANGED status
    /\ UNCHANGED <<prog, stdout, subVars, resVars, env, tree, cwd, header, incHeader>>

\* the entry point: src/main.cc (basic), main.cc (advanced)
WriteMain ==
    /\ prog \in Scaffold /\ pc = "main" /\ status = "running"
    /\ outTree' = outTree \cup {IF prog = "basic" THEN "src/main.cc" ELSE "main.cc"}
    /\ stdout' = IF prog = "basic"
                 THEN Append(stdout, Msg("INFO", Lit("Generating C++ entry point")))
                 ELSE stdout
    /\ pc' = "makefile"
    /\ UNCHANGED <<prog, status, subVars, resVars, env, tree, cwd, header, incHeader>>

WriteMakefile ==
    /\ prog \in Scaffold /\ pc = "makefile" /\ status = "running"
    /\ outTree' = outTree \cup {"Makefile"}
    /\ stdout' = IF prog = "basic"
                 THEN Append(stdout, Msg("INFO", Lit("Generating Makefile")))
                 ELSE stdout
    /\ pc' = IF prog = "basic" THEN "finish" ELSE "condor"
    /\ UNCHANGED <<prog, status, subVars, resVars, env, tree, cwd, header, incHeader>>

\* advanced: write submit_condor.py; the template calls os.getlogin()
WriteCondor ==
    /\ prog = "advanced" /\ pc = "condor" /\ status = "running"
    /\ IF env.loginOk
       THEN /\ outTree' = outTree \cup {"submit_condor.py"}
            /\ pc' = "finish" /\ UNCHANGED status
       ELSE Crash /\ UNCHANGED <<pc, outTree>>
    /\ UNCHANGED <<prog, stdout, subVars, resVars, env, tree, cwd, header, incHeader>>

\* os.chdir(original_cwd) and the closing messages
Finish ==
    /\ prog \in Scaffold /\ pc = "finish" /\ status = "running"
    /\ cwd' = "orig"
    /\ stdout' = Append(stdout, Msg("DONE", Lit("Framework generated")))
    /\ pc' = "end"
    /\ status' = "done"
    /\ UNCHANGED <<prog, subVars, resVars, env, tree, outTree, header, incHeader>>

\* --------------------------------------------- claims: scaffold generators
\* tree.MakeClass has been called
MakeClassInvoked ==
    \/ pc \in {"relocate", "source", "main", "makefile", "condor", "finish", "end"}
    \/ pc = "makeclass" /\ status # "running"

HasMsg(tag) == \E i \in 1..Len(stdout) : stdout[i].tag = tag

\* C8: in both generators, when the sample file cannot be opened or the table
\* is missing, MakeClass is never called: the run ends before that, with a
\* non-zero exit and a printed diagnostic.
C8_AbortBeforeGeneration ==
    (prog \in Scaffold /\ env.rootOk /\ (~env.fileOk \/ ~env.treeFound)) =>
        /\ ~MakeClassInvoked
        /\ status # "done"
        /\ status = "exit1" => HasMsg("ERROR")

\* every precondition of a run met, apart from the state of the output directory
AllOk == env.rootOk /\ env.fileOk /\ env.treeFound /\ env.genOk /\ env.loginOk

\* C9: when the output directory exists before the run, whatever it holds, the
\* generator warns and then completes as it does for a fresh directory.
C9_ExistingDirProceeds ==
    (prog \in Scaffold /\ AllOk /\ "." \in env.before) =>
        /\ pc \notin {"start", "open", "gettree", "mkdirs"} => HasMsg("WARNING")
        /\ status \in {"running", "done"}
        /\ status = "done" =>
              {"include/X.h", "src/X.C", "Makefile"} \subseteq outTree

\* the advanced generator has written include/<class>.h
HeaderRewritten == prog = "advanced" /\ "include/X.h" \in outTree

\* a line that holds the word public and a colon, in any order
HasPublicAndColon(line) ==
    /\ \E i \in 1..Len(line) : line[i] = ":"
    /\ \E i \in 1..Len(line) :
          i + 5 <= Len(line) /\ <<line[i], line[i + 1], line[i + 2], line[i + 3], line[i + 4],
                                  line[i + 5]>> = <<"p", "u", "b", "l", "i", "c">>

MarkerLines == {i \in 1..Len(header) : HasPublicAndColon(header[i])}

\* the four injected declarations
FieldDecls == { Lit("   float fWeight = 1.0;\n"),
                Lit("   bool fIsData = false;\n"),
                Lit("   TString fProcess = \"\";\n"),
                Lit("   TString fOutputFileName = \"output.root\";\n") }

Occurrences(piece) == Cardinality({i \in 1..Len(incHeader) : incHeader[i] = piece})

\* C11: the rewritten header is the original lines in their order with the
\* fixed block (the declarations of fWeight, fIsData, fProcess and
\* fOutputFileName) inserted once, right after the first line that holds
\* 'public' and ':'; later such lines get nothing, and a header without such a
\* line is copied unchanged.
C11_SingleFirstMatchInjection ==
    HeaderRewritten =>
        IF MarkerLines = {}
        THEN /\ incHeader = header
             /\ \A d \in FieldDecls : Occurrences(d) = 0
        ELSE LET m == CHOOSE i \in MarkerLines : \A j \in MarkerLines : i <= j
             IN /\ Len(incHeader) = Len(header) + Len(InjectedBlock)
                /\ \A i \in 1..m : incHeader[i] = header[i]
                /\ \A k \in 1..Len(InjectedBlock) : incHeader[m + k] = InjectedBlock[k]
                /\ \A i \in (m + 1)..Len(header) : incHeader[i + Len(InjectedBlock)] = header[i]
                /\ \A d \in FieldDecls : Occurrences(d) = 1

\* a header whose two lines are both marker lines has been rewritten
C11_Witness ==
    /\ HeaderRewritten
    /\ Len(header) = 2 /\ MarkerLines = {1, 2}
    /\ header[1] # header[2]
    /\ Len(incHeader) = 8

\* a header without a marker line has been copied
C11_WitnessNoMarker ==
    /\ HeaderRewritten
    /\ Len(header) = 2 /\ MarkerLines = {}
    /\ incHeader = header

\* ------------------------------------------------------------ specification
SubmitIdle ==
    /\ inputA = <<>> /\ pos = 0 /\ dirs = {} /\ textFiles = <<>> /\ scriptFiles = {}
    /\ submitted = <<>> /\ calls = <<>>

ResolveIdle == queryOut = <<>> /\ file_list = <<>> /\ outFile = NoFile

NoEnv == [rootOk |-> TRUE, fileOk |-> TRUE, treeFound |-> TRUE, genOk |-> TRUE,
          loginOk |-> TRUE, before |-> {}]

ScaffoldIdle ==
    /\ env = NoEnv /\ tree = "unset" /\ outTree = {} /\ cwd = "orig"
    /\ header = <<>> /\ incHeader = <<>>

SubmitInit ==
    /\ prog = "submit"
    /\ inputA \in InputLists
    /\ pos = 0 /\ dirs = {} /\ textFiles = <<>> /\ scriptFiles = {}
    /\ submitted = <<>> /\ calls = <<>>
    /\ ResolveIdle /\ ScaffoldIdle

ResolveInit ==
    /\ prog = "resolve"
    /\ queryOut \in QueryOutputs
    /\ file_list = <<>>
    /\ outFile \in OutFilesBefore
    /\ SubmitIdle /\ ScaffoldIdle

ScaffoldInit ==
    /\ prog \in Scaffold
    /\ env \in Envs
    /\ tree = "unset" /\ outTree = env.before /\ cwd = "orig"
    /\ header = <<>> /\ incHeader = <<>>
    /\ SubmitIdle /\ ResolveIdle

SubmitNext ==
    \/ MainStart
    \/ \E rawline \in ConfigLineSet : MainSkip(rawline)
    \/ \E rawline \in ConfigLineSet : SubmitJob(rawline)
    \/ MainEnd

ResolveNext == GetFileList \/ SaveFileList

ScaffoldNext ==
    \/ ImportROOT
    \/ OpenFile
    \/ GetTree
    \/ \E mkOk \in BOOLEAN : PrepareDirs(mkOk)
    \/ ChangeDir
    \/ \E hdr \in Headers : MakeClass(hdr)
    \/ MoveFiles
    \/ InjectMembers
    \/ WriteSource
    \/ WriteMain
    \/ WriteMakefile
    \/ WriteCondor
    \/ Finish

Init ==
    /\ pc = "start" /\ status = "running" /\ stdout = <<>>
    /\ (SubmitInit \/ ResolveInit \/ ScaffoldInit)

Next == SubmitNext \/ ResolveNext \/ ScaffoldNext

Spec == Init /\ [][Next]_vars

====
